---- MODULE Spec2Model ----
(***************************************************************************)
(* Model of package spa (static.go): the http.Handler returned by          *)
(* StaticHandler, which serves regular files of an http.FileSystem, falls  *)
(* back to a configured document and redirects requests ending in          *)
(* "/index.html".                                                          *)
(*                                                                         *)
(* Strings that are paths are sequences of tokens: the token "/" is one    *)
(* slash and any other token is one path segment (a non-empty run of       *)
(* characters without a slash).  "/dir/index.html" is                      *)
(* <<"/", "dir", "/", "index.html">>, "" is << >>.  Two segments are never *)
(* adjacent, so the encoding is one to one and prefix/suffix tests on the  *)
(* tokens are the tests on the characters for the literals the code uses.  *)
(***************************************************************************)
EXTENDS Integers, Sequences, FiniteSets, TLC

\* ---------------------------------------------------------------- bounds
\* Longest request path, in tokens.
MaxPathLen == 4
\* Longest option list given to StaticHandler.
MaxOpts == 2
\* Goroutines that may run ServeHTTP on the one handler.
NumProcs == 2
\* Redirects a client follows for one request before it gives up.
MaxHops == 2

Procs == 1..NumProcs

\* ---------------------------------------------------------------- strings
Slash == "/"
Segs == {"index.html", "dir", "test.js", "..", "."}
Tokens == Segs \cup {Slash}

RECURSIVE SeqsUpTo(_, _)
SeqsUpTo(S, n) ==
  IF n = 0 THEN {<< >>}
  ELSE LET shorter == SeqsUpTo(S, n - 1)
       IN  shorter \cup {Append(s, t) : s \in {x \in shorter : Len(x) = n - 1}, t \in S}

\* A token sequence that spells a string: no two segments side by side.
WellFormed(s) ==
  \A i \in 1..(Len(s) - 1) : s[i] = Slash \/ s[i + 1] = Slash

\* Paths that differ from an index path in the case of letters only.
CasePaths == {<<"/", "INDEX.HTML">>, <<"/", "dir", "/", "Index.html">>}

\* r.URL.Path of the requests considered: with and without the leading
\* "/", the longest ones with it.
RequestPaths ==
  {s \in SeqsUpTo(Tokens, MaxPathLen) :
     WellFormed(s) /\ (Len(s) = MaxPathLen => s[1] = Slash)} \cup CasePaths

\* strings.HasPrefix
HasPrefix(s, prefix) ==
  /\ Len(s) >= Len(prefix)
  /\ SubSeq(s, 1, Len(prefix)) = prefix

\* strings.HasSuffix
HasSuffix(s, suffix) ==
  /\ Len(s) >= Len(suffix)
  /\ SubSeq(s, Len(s) - Len(suffix) + 1, Len(s)) = suffix

RootPath == <<"/">>
IndexSuffix == <<"/", "index.html">>
DefaultFallback == <<"/", "index.html">>

\* ---------------------------------------------------------------- path.Clean
Elements(s) == SelectSeq(s, LAMBDA t : t # Slash)

RECURSIVE Join(_)
Join(elems) ==
  IF Len(elems) = 0 THEN << >>
  ELSE IF Len(elems) = 1 THEN <<elems[1]>>
  ELSE <<elems[1], Slash>> \o Join(Tail(elems))

\* The element loop of path.Clean: out is the buffer written so far.
RECURSIVE CleanElems(_, _, _)
CleanElems(elems, out, rooted) ==
  IF Len(elems) = 0 THEN out
  ELSE LET e == Head(elems)
           rest == Tail(elems)
       IN  IF e = "." THEN CleanElems(rest, out, rooted)
           ELSE IF e = ".."
             THEN IF Len(out) > 0 /\ out[Len(out)] # ".."
                    THEN CleanElems(rest, SubSeq(out, 1, Len(out) - 1), rooted)
                  ELSE IF ~rooted
                    THEN CleanElems(rest, Append(out, ".."), rooted)
                  ELSE CleanElems(rest, out, rooted)
           ELSE CleanElems(rest, Append(out, e), rooted)

\* Clean that treats a rooted path as a relative one in the element loop:
\* ".." at the root is kept.
Clean_Unrooted(s) ==
  IF Len(s) = 0 THEN <<".">>
  ELSE LET rooted == s[1] = Slash
           out == Join(CleanElems(Elements(s), << >>, FALSE))
       IN  IF rooted THEN <<Slash>> \o out
           ELSE IF Len(out) = 0 THEN <<".">>
           ELSE out

\* path.Clean
Clean(s) ==
  IF Len(s) = 0 THEN <<".">>
  ELSE LET rooted == s[1] = Slash
           out == Join(CleanElems(Elements(s), << >>, rooted))
       IN  IF rooted THEN <<Slash>> \o out
           ELSE IF Len(out) = 0 THEN <<".">>
           ELSE out

\* ---------------------------------------------------------------- errors
ErrNil == "nil"
ErrNotExist == "fs.ErrNotExist"
ErrPermission == "fs.ErrPermission"
ErrIO == "io error"
Errors == {ErrNotExist, ErrPermission, ErrIO}

\* ---------------------------------------------------------------- http.FileSystem
\* What the filesystem holds at a name: the error of Open, the error of
\* Stat on the opened file, and whether its mode is regular.
Entry(openErr, statErr, regular) ==
  [openErr |-> openErr, statErr |-> statErr, regular |-> regular]

RegularFile == Entry(ErrNil, ErrNil, TRUE)
Directory == Entry(ErrNil, ErrNil, FALSE)
Absent == Entry(ErrNotExist, ErrNil, FALSE)

Entries ==
  {RegularFile, Directory}
    \cup {Entry(e, ErrNil, FALSE) : e \in Errors}
    \cup {Entry(ErrNil, e, FALSE) : e \in Errors}

IndexPath == <<"/", "index.html">>
ScriptPath == <<"/", "dir", "/", "test.js">>

FSPaths == {<<"/">>, <<"/", "dir">>, IndexPath, ScriptPath}

\* The tree of the tests: the directories / and /dir, the files /index.html
\* and /dir/test.js.
BaseFS ==
  [n \in FSPaths |->
     IF n \in {<<"/">>, <<"/", "dir">>} THEN Directory ELSE RegularFile]

\* The filesystems considered: that tree, with anything at all in the place
\* of each of its two files.
Filesystems ==
  {[BaseFS EXCEPT ![IndexPath] = a, ![ScriptPath] = b] : a \in Entries, b \in Entries}

\* http.FileSystem.Open: the entry at the name, names the tree does not
\* hold do not exist.
FSOpen(fsys, name) ==
  IF name \in DOMAIN fsys THEN fsys[name] ELSE Absent

\* The bytes stored in the file of that name.
FileData(name) == <<"data of">> \o name

\* ---------------------------------------------------------------- options
Fallbacks == {<< >>, IndexPath, ScriptPath, <<"index.html">>}

FallbackOpt(f) == [opt |-> "Fallback", f |-> f]
NoIndexRedirectOpt == [opt |-> "NoIndexRedirect", f |-> << >>]
Options == {FallbackOpt(f) : f \in Fallbacks} \cup {NoIndexRedirectOpt}

\* Fallback(f)(h)
Fallback(hh, f) == [hh EXCEPT !.fallback = f]

\* NoIndexRedirect()(h)
NoIndexRedirect(hh) == [hh EXCEPT !.indexRedirect = FALSE]

ApplyOption(hh, o) ==
  IF o.opt = "Fallback" THEN Fallback(hh, o.f) ELSE NoIndexRedirect(hh)

RECURSIVE ApplyOptions(_, _)
ApplyOptions(hh, opts) ==
  IF Len(opts) = 0 THEN hh
  ELSE ApplyOptions(ApplyOption(hh, Head(opts)), Tail(opts))

\* StaticHandler(fs, opts...)
StaticHandler(fsys, opts) ==
  ApplyOptions([fs |-> fsys, fallback |-> DefaultFallback, indexRedirect |-> TRUE], opts)

\* ---------------------------------------------------------------- URL
Queries == {<< >>, <<"query">>}

\* (Fragment, RawFragment) of the request URL.
Frag(fragment, raw) == [Fragment |-> fragment, RawFragment |-> raw]
Fragments ==
  { Frag(<< >>, << >>),
    Frag(<<"fragment">>, << >>),
    Frag(<<"a", " ", "b">>, << >>),
    Frag(<<"a", " ", "b">>, <<"a", "%20", "b">>),
    Frag(<< >>, <<"stale">>) }

EscapeTok(t) == IF t = " " THEN "%20" ELSE t
UnescapeTok(t) == IF t = "%20" THEN " " ELSE t
Escape(s) == [i \in 1..Len(s) |-> EscapeTok(s[i])]
Unescape(s) == [i \in 1..Len(s) |-> UnescapeTok(s[i])]
ValidEncoded(s) == \A i \in 1..Len(s) : s[i] # " "

\* (*URL).EscapedFragment
EscapedFragment(u) ==
  IF /\ u.RawFragment # << >>
     /\ ValidEncoded(u.RawFragment)
     /\ Unescape(u.RawFragment) = u.Fragment
    THEN u.RawFragment
    ELSE Escape(u.Fragment)

\* ---------------------------------------------------------------- responses
StatusOK == 200
StatusMovedPermanently == 301
StatusInternalServerError == 500

NoFile == 0

Response(status, location, body, file) ==
  [status |-> status, location |-> location, body |-> body, file |-> file]

\* http.Error(w, http.StatusText(500), 500)
HTTPError == Response(StatusInternalServerError, << >>, <<"Internal Server Error">>, NoFile)

\* RedirectLocation with the fragment appended before the query.
RedirectLocation_FragmentFirst(dst, rawQuery, u) ==
  LET ef == EscapedFragment(u)
      withFragment == IF ef # << >> THEN dst \o <<"#">> \o ef ELSE dst
  IN  IF rawQuery # << >> THEN withFragment \o <<"?">> \o rawQuery ELSE withFragment

\* redirect(w, r, dst): the Location header it sets.
RedirectLocation(dst, rawQuery, u) ==
  LET withQuery == IF rawQuery # << >> THEN dst \o <<"?">> \o rawQuery ELSE dst
      ef == EscapedFragment(u)
  IN  IF ef # << >> THEN withQuery \o <<"#">> \o ef ELSE withQuery

\* ---------------------------------------------------------------- decisions
\* A definition named X_... is X with one slip in it; the properties below
\* hold of X and fail of X_....

\* LookupError with the IsRegular test inverted.
LookupError_Inverted(entry) ==
  IF entry.statErr # ErrNil THEN entry.statErr
  ELSE IF entry.regular THEN ErrNotExist
  ELSE ErrNil

\* LookupError without the IsRegular test.
LookupError_NoRegularTest(entry) ==
  IF entry.statErr # ErrNil THEN entry.statErr
  ELSE ErrNil

\* ServeHTTP after Open: the error it hands to handleError, from f.Stat()
\* and the IsRegular test, or nil when the file is to be served.
LookupError(entry) ==
  IF entry.statErr # ErrNil THEN entry.statErr
  ELSE IF ~entry.regular THEN ErrNotExist
  ELSE ErrNil

\* FallbackName with the leading "/" trimmed.
FallbackName_Trimmed(hh) ==
  IF HasPrefix(hh.fallback, <<Slash>>) THEN Tail(hh.fallback) ELSE hh.fallback

\* FallbackName that ignores the configured path.
FallbackName_Default(hh) == DefaultFallback

\* The name handleError opens.
FallbackName(hh) == hh.fallback

\* IsFatal that lets every error reach the fallback.
IsFatal_OnlyEmpty(hh, e) ==
  hh.fallback = << >>

\* IsFatal without the test for the empty fallback path.
IsFatal_IgnoresEmpty(hh, e) ==
  e # ErrNotExist /\ e # ErrPermission

\* IsFatal that does not accept fs.ErrPermission.
IsFatal_PermissionFatal(hh, e) ==
  hh.fallback = << >> \/ e # ErrNotExist

\* The test of handleError that ends the request with 500 at once.
IsFatal(hh, e) ==
  hh.fallback = << >> \/ (e # ErrNotExist /\ e # ErrPermission)

\* IsIndexRequest that also takes a directory path for an index request.
IsIndexRequest_OrDirectory(hh, p) ==
  hh.indexRedirect /\ (HasSuffix(p, IndexSuffix) \/ HasSuffix(p, <<Slash>>))

\* IsIndexRequest made on the cleaned path.
IsIndexRequest_Cleaned(hh, p) ==
  hh.indexRedirect /\ HasSuffix(Clean(p), IndexSuffix)

\* IsIndexRequest that ignores indexRedirect.
IsIndexRequest_Always(hh, p) ==
  HasSuffix(p, IndexSuffix)

\* The test of ServeHTTP that sends the index redirect.
IsIndexRequest(hh, p) ==
  hh.indexRedirect /\ HasSuffix(p, IndexSuffix)

\* IsSlashRequest with == for != in the test for "/".
IsSlashRequest_RootOnly(p) ==
  p = RootPath /\ HasSuffix(p, <<Slash>>)

\* IsSlashRequest made on the cleaned path.
IsSlashRequest_AfterClean(p) ==
  Clean(p) # RootPath /\ HasSuffix(Clean(p), <<Slash>>)

\* The test of ServeHTTP that refuses a directory-style path.
IsSlashRequest(p) ==
  p # RootPath /\ HasSuffix(p, <<Slash>>)

\* fpath after the prefix test of ServeHTTP.
Normalize(p) ==
  IF ~HasPrefix(p, <<Slash>>) THEN <<Slash>> \o p ELSE p

\* ---------------------------------------------------------------- state
VARIABLES
  h,         \* the *handler built by StaticHandler
  pc,        \* where each goroutine is in ServeHTTP / handleError
  r,         \* the request of each goroutine: Path, RawQuery, Fragment, RawFragment
  fpath,     \* ServeHTTP's local fpath
  err,       \* the err argument of handleError
  f,         \* ServeHTTP's local f: a handle, or NoFile
  ff,        \* handleError's local f: a handle, or NoFile
  handles,   \* every Open call made so far, with the Close calls on its result
  w,         \* what each goroutine wrote to its ResponseWriter, in order
  incoming,  \* which requests clients send to this server: a name of Traffic
  hops       \* the redirects followed to arrive at the request of each goroutine

vars == <<h, pc, r, fpath, err, f, ff, handles, w, incoming, hops>>

NoRequest == [Path |-> << >>, RawQuery |-> << >>, Fragment |-> << >>, RawFragment |-> << >>]

\* One Open call: who made it, for what, with which name, whether it
\* returned a file, and how often Close was called on what it returned.
Handle(owner, use, name, entry) ==
  [owner |-> owner, use |-> use, name |-> name, ok |-> entry.openErr = ErrNil, closes |-> 0]

\* f.Close()
CloseHandle(hs, id) == [hs EXCEPT ![id].closes = @ + 1]

\* The shorter paths.
FairPaths == {s \in RequestPaths : Len(s) < MaxPathLen}

\* An index path, whose redirect leads to "/", a file and a directory with
\* a trailing slash.
ConcPaths ==
  { IndexPath, ScriptPath, <<"/", "dir", "/">> }

\* The request paths sent to the server, by the name of the traffic.
Traffic(name) ==
  IF name = "any" THEN RequestPaths
  ELSE IF name = "short" THEN FairPaths
  ELSE ConcPaths

InitWith(active, filesystems, optionLists, traffic) ==
  /\ \E fsys \in filesystems, opts \in optionLists :
       h = StaticHandler(fsys, opts)
  /\ incoming = traffic
  /\ hops = [p \in Procs |-> 0]
  /\ pc = [p \in Procs |-> IF p \in active THEN "idle" ELSE "unused"]
  /\ r = [p \in Procs |-> NoRequest]
  /\ fpath = [p \in Procs |-> << >>]
  /\ err = [p \in Procs |-> ErrNil]
  /\ f = [p \in Procs |-> NoFile]
  /\ ff = [p \in Procs |-> NoFile]
  /\ handles = << >>
  /\ w = [p \in Procs |-> << >>]

\* One request at a time, any filesystem, any options, any path.
Init == InitWith({1}, Filesystems, SeqsUpTo(Options, MaxOpts), "any")

\* ServeHTTP, the prefix test: a request arrives and fpath is set.
Accept(p) ==
  /\ pc[p] = "idle"
  /\ \E path \in Traffic(incoming) :
       /\ r' = [r EXCEPT ![p].Path = path]
       /\ fpath' = [fpath EXCEPT ![p] = Normalize(path)]
  /\ pc' = [pc EXCEPT ![p] = "route"]
  /\ UNCHANGED <<h, err, f, ff, handles, w, incoming, hops>>

\* Redirect made after the lookup: the file is opened and closed first.
Redirect_AfterOpen(p) ==
  /\ pc[p] = "route"
  /\ IsIndexRequest(h, fpath[p])
  /\ \E q \in Queries, u \in Fragments :
       /\ r' = [r EXCEPT ![p].RawQuery = q,
                         ![p].Fragment = u.Fragment,
                         ![p].RawFragment = u.RawFragment]
       /\ w' = [w EXCEPT ![p] = Append(@,
                  Response(StatusMovedPermanently, RedirectLocation(<<"./">>, q, u), << >>, NoFile))]
  /\ LET name == Clean(fpath[p])
         opened == Handle(p, "request", name, FSOpen(h.fs, name))
     IN  handles' = Append(handles, [opened EXCEPT !.closes = IF opened.ok THEN 1 ELSE 0])
  /\ pc' = [pc EXCEPT ![p] = "done"]
  /\ UNCHANGED <<h, fpath, err, f, ff, incoming, hops>>

\* ServeHTTP, the index redirect, with redirect(w, r, "./").  The query and
\* the fragment of the URL are drawn here, where the code first reads them.
Redirect(p) ==
  /\ pc[p] = "route"
  /\ IsIndexRequest(h, fpath[p])
  /\ \E q \in Queries, u \in Fragments :
       /\ r' = [r EXCEPT ![p].RawQuery = q,
                         ![p].Fragment = u.Fragment,
                         ![p].RawFragment = u.RawFragment]
       /\ w' = [w EXCEPT ![p] = Append(@,
                  Response(StatusMovedPermanently, RedirectLocation(<<"./">>, q, u), << >>, NoFile))]
  /\ pc' = [pc EXCEPT ![p] = "done"]
  /\ UNCHANGED <<h, fpath, err, f, ff, handles, incoming, hops>>

\* ServeHTTP, the trailing-slash test: handleError(w, r, fs.ErrNotExist).
TrailingSlash(p) ==
  /\ pc[p] = "route"
  /\ ~IsIndexRequest(h, fpath[p])
  /\ IsSlashRequest(fpath[p])
  /\ err' = [err EXCEPT ![p] = ErrNotExist]
  /\ pc' = [pc EXCEPT ![p] = "handleError"]
  /\ UNCHANGED <<h, r, fpath, f, ff, handles, w, incoming, hops>>

\* ServeHTTP: f, err := h.fs.Open(path.Clean(fpath)), and defer f.Close()
\* when it returned a file.
Open(p) ==
  /\ pc[p] = "route"
  /\ ~IsIndexRequest(h, fpath[p])
  /\ ~IsSlashRequest(fpath[p])
  /\ LET name == Clean(fpath[p])
         entry == FSOpen(h.fs, name)
     IN  /\ handles' = Append(handles, Handle(p, "request", name, entry))
         /\ IF entry.openErr # ErrNil
              THEN /\ err' = [err EXCEPT ![p] = entry.openErr]
                   /\ pc' = [pc EXCEPT ![p] = "handleError"]
                   /\ f' = f
              ELSE /\ f' = [f EXCEPT ![p] = Len(handles) + 1]
                   /\ pc' = [pc EXCEPT ![p] = "stat"]
                   /\ err' = err
  /\ UNCHANGED <<h, r, fpath, ff, w, incoming, hops>>

\* ServeHTTP: fi, err := f.Stat() and the IsRegular test.
Stat(p) ==
  /\ pc[p] = "stat"
  /\ LET e == LookupError(FSOpen(h.fs, handles[f[p]].name))
     IN  IF e # ErrNil
           THEN /\ err' = [err EXCEPT ![p] = e]
                /\ pc' = [pc EXCEPT ![p] = "handleError"]
           ELSE /\ err' = err
                /\ pc' = [pc EXCEPT ![p] = "serve"]
  /\ UNCHANGED <<h, r, fpath, f, ff, handles, w, incoming, hops>>

\* Serve with f kept in a place the goroutines share: the file served is
\* the one opened last, by whichever goroutine.
Serve_SharedFile(p) ==
  /\ pc[p] = "serve"
  /\ w' = [w EXCEPT ![p] = Append(@,
             Response(StatusOK, << >>, FileData(handles[Len(handles)].name), Len(handles)))]
  /\ pc' = [pc EXCEPT ![p] = "return"]
  /\ UNCHANGED <<h, r, fpath, err, f, ff, handles, incoming, hops>>

\* ServeHTTP: http.ServeContent(w, r, fi.Name(), fi.ModTime(), f).
Serve(p) ==
  /\ pc[p] = "serve"
  /\ w' = [w EXCEPT ![p] = Append(@,
             Response(StatusOK, << >>, FileData(handles[f[p]].name), f[p]))]
  /\ pc' = [pc EXCEPT ![p] = "return"]
  /\ UNCHANGED <<h, r, fpath, err, f, ff, handles, incoming, hops>>

\* handleError, its first test.
HandleError(p) ==
  /\ pc[p] = "handleError"
  /\ IF IsFatal(h, err[p])
       THEN /\ w' = [w EXCEPT ![p] = Append(@, HTTPError)]
            /\ pc' = [pc EXCEPT ![p] = "return"]
       ELSE /\ w' = w
            /\ pc' = [pc EXCEPT ![p] = "fallbackOpen"]
  /\ UNCHANGED <<h, r, fpath, err, f, ff, handles, incoming, hops>>

\* handleError: f, err := h.fs.Open(h.fallback), and defer f.Close() when
\* it returned a file.
FallbackOpen(p) ==
  /\ pc[p] = "fallbackOpen"
  /\ LET name == FallbackName(h)
         entry == FSOpen(h.fs, name)
     IN  /\ handles' = Append(handles, Handle(p, "fallback", name, entry))
         /\ IF entry.openErr # ErrNil
              THEN /\ w' = [w EXCEPT ![p] = Append(@, HTTPError)]
                   /\ pc' = [pc EXCEPT ![p] = "return"]
                   /\ ff' = ff
              ELSE /\ ff' = [ff EXCEPT ![p] = Len(handles) + 1]
                   /\ pc' = [pc EXCEPT ![p] = "fallbackStat"]
                   /\ w' = w
  /\ UNCHANGED <<h, r, fpath, err, f, incoming, hops>>

\* FallbackStat without the IsRegular test.
FallbackStat_NoRegularTest(p) ==
  /\ pc[p] = "fallbackStat"
  /\ LET entry == FSOpen(h.fs, handles[ff[p]].name)
     IN  IF entry.statErr # ErrNil
           THEN /\ w' = [w EXCEPT ![p] = Append(@, HTTPError)]
                /\ pc' = [pc EXCEPT ![p] = "fallbackReturn"]
           ELSE /\ w' = w
                /\ pc' = [pc EXCEPT ![p] = "fallbackServe"]
  /\ UNCHANGED <<h, r, fpath, err, f, ff, handles, incoming, hops>>

\* FallbackStat without the return after http.Error.
FallbackStat_NoReturn(p) ==
  /\ pc[p] = "fallbackStat"
  /\ LET entry == FSOpen(h.fs, handles[ff[p]].name)
     IN  IF entry.statErr # ErrNil \/ ~entry.regular
           THEN w' = [w EXCEPT ![p] = Append(@, HTTPError)]
           ELSE w' = w
  /\ pc' = [pc EXCEPT ![p] = "fallbackServe"]
  /\ UNCHANGED <<h, r, fpath, err, f, ff, handles, incoming, hops>>

\* handleError: fi, err := f.Stat() and the IsRegular test.
FallbackStat(p) ==
  /\ pc[p] = "fallbackStat"
  /\ LET entry == FSOpen(h.fs, handles[ff[p]].name)
     IN  IF entry.statErr # ErrNil \/ ~entry.regular
           THEN /\ w' = [w EXCEPT ![p] = Append(@, HTTPError)]
                /\ pc' = [pc EXCEPT ![p] = "fallbackReturn"]
           ELSE /\ w' = w
                /\ pc' = [pc EXCEPT ![p] = "fallbackServe"]
  /\ UNCHANGED <<h, r, fpath, err, f, ff, handles, incoming, hops>>

\* handleError: http.ServeContent(w, r, fi.Name(), fi.ModTime(), f).
FallbackServe(p) ==
  /\ pc[p] = "fallbackServe"
  /\ w' = [w EXCEPT ![p] = Append(@,
             Response(StatusOK, << >>, FileData(handles[ff[p]].name), ff[p]))]
  /\ pc' = [pc EXCEPT ![p] = "fallbackReturn"]
  /\ UNCHANGED <<h, r, fpath, err, f, ff, handles, incoming, hops>>

\* handleError returns: its deferred f.Close() runs.
FallbackReturn(p) ==
  /\ pc[p] = "fallbackReturn"
  /\ handles' = CloseHandle(handles, ff[p])
  /\ pc' = [pc EXCEPT ![p] = "return"]
  /\ UNCHANGED <<h, r, fpath, err, f, ff, w, incoming, hops>>

\* Return without the deferred f.Close().
Return_NoClose(p) ==
  /\ pc[p] = "return"
  /\ pc' = [pc EXCEPT ![p] = "done"]
  /\ UNCHANGED <<h, r, fpath, err, f, ff, handles, w, incoming, hops>>

\* ServeHTTP returns: its deferred f.Close() runs when one was registered.
Return(p) ==
  /\ pc[p] = "return"
  /\ handles' = IF f[p] # NoFile THEN CloseHandle(handles, f[p]) ELSE handles
  /\ pc' = [pc EXCEPT ![p] = "done"]
  /\ UNCHANGED <<h, r, fpath, err, f, ff, w, incoming, hops>>

\* The directory of a path that ends in "index.html": where the Location
\* "./" of the index redirect leads.
WithoutIndex(path) == SubSeq(path, 1, Len(path) - 1)

\* The client follows the 301 of the index redirect: the same goroutine
\* serves the request for the same path without the final "index.html".
\* The query and the fragment are as yet unread by that request.
Follow(p) ==
  /\ pc[p] = "done"
  /\ hops[p] < MaxHops
  /\ Len(w[p]) > 0
  /\ w[p][Len(w[p])].status = StatusMovedPermanently
  /\ hops' = [hops EXCEPT ![p] = @ + 1]
  /\ r' = [r EXCEPT ![p] = [NoRequest EXCEPT !.Path = WithoutIndex(r[p].Path)]]
  /\ fpath' = [fpath EXCEPT ![p] = Normalize(WithoutIndex(r[p].Path))]
  /\ w' = [w EXCEPT ![p] = << >>]
  /\ pc' = [pc EXCEPT ![p] = "route"]
  /\ UNCHANGED <<h, err, f, ff, handles, incoming>>

\* One step of ServeHTTP in goroutine p.
Step(p) ==
  \/ Redirect(p)
  \/ TrailingSlash(p)
  \/ Open(p)
  \/ Stat(p)
  \/ Serve(p)
  \/ HandleError(p)
  \/ FallbackOpen(p)
  \/ FallbackStat(p)
  \/ FallbackServe(p)
  \/ FallbackReturn(p)
  \/ Return(p)

Next ==
  \E p \in Procs :
    \/ Accept(p)
    \/ Follow(p)
    \/ Redirect(p)
    \/ TrailingSlash(p)
    \/ Open(p)
    \/ Stat(p)
    \/ Serve(p)
    \/ HandleError(p)
    \/ FallbackOpen(p)
    \/ FallbackStat(p)
    \/ FallbackServe(p)
    \/ FallbackReturn(p)
    \/ Return(p)

Spec == Init /\ [][Next]_vars

\* The inputs of ConcSpec: the tree of the tests and the same with a
\* /index.html that cannot be read; the default options and a fallback of
\* /dir/test.js; the "mixed" requests.
ConcFilesystems ==
  { BaseFS, [BaseFS EXCEPT ![IndexPath] = Entry(ErrNil, ErrPermission, FALSE)] }
ConcOptionLists ==
  { << >>, <<FallbackOpt(ScriptPath)>> }

ConcInit == InitWith(Procs, ConcFilesystems, ConcOptionLists, "mixed")

\* Every goroutine serves a request of its own, on the one handler, in any
\* interleaving.
ConcSpec == ConcInit /\ [][Next]_vars

\* The inputs of FairSpec: a fault in the place of one file at a time, the
\* "short" requests.
FairFilesystems ==
  {[BaseFS EXCEPT ![n] = a] : n \in {IndexPath, ScriptPath}, a \in Entries}

FairInit == InitWith({1}, FairFilesystems, SeqsUpTo(Options, MaxOpts), "short")

\* A goroutine that has a request runs until ServeHTTP returns: the
\* filesystem calls return and the scheduler starves no goroutine.
FairSpec == FairInit /\ [][Next]_vars /\ \A p \in Procs : WF_vars(Step(p))

TypeOK ==
  /\ pc \in [Procs -> {"unused", "idle", "route", "stat", "serve", "handleError",
                       "fallbackOpen", "fallbackStat", "fallbackServe",
                       "fallbackReturn", "return", "done"}]
  /\ \A p \in Procs : f[p] \in 0..Len(handles) /\ ff[p] \in 0..Len(handles)

\* ---------------------------------------------------------------- vocabulary of the properties
Done(p) == pc[p] = "done"

\* The request of p was answered once, with that status and body.
Answered(p, status, body) ==
  /\ Len(w[p]) = 1
  /\ w[p][1].status = status
  /\ w[p][1].body = body

\* The filesystem of the handler holds a regular file under that name.
IsRegularFile(name) == FSOpen(h.fs, name) = RegularFile

DefaultConfiguration == h.fallback = DefaultFallback /\ h.indexRedirect

\* The Open calls of p for its request path / for the fallback.
RequestOpens(p) ==
  {i \in 1..Len(handles) : handles[i].owner = p /\ handles[i].use = "request"}
FallbackOpens(p) ==
  {i \in 1..Len(handles) : handles[i].owner = p /\ handles[i].use = "fallback"}

\* The file of that name was handed to the content responder, and nothing
\* else was written: 200 with the stored contents.
ServedFile(p, name) ==
  /\ Answered(p, StatusOK, FileData(name))
  /\ w[p][1].file # NoFile
  /\ handles[w[p][1].file].name = name

\* The answer of the fallback logic: the fallback document when there is a
\* valid one, 500 otherwise.
FallbackAnswer(p) ==
  IF h.fallback # << >> /\ IsRegularFile(h.fallback)
    THEN Answered(p, StatusOK, FileData(h.fallback))
    ELSE w[p] = <<HTTPError>>

\* ---------------------------------------------------------------- C1
\* C1 as stated: with the default configuration, every request path that
\* names an existing regular file is answered 200 with that file's own
\* contents.
C1_AsClaimed ==
  \A p \in Procs :
    (Done(p) /\ DefaultConfiguration /\ IsRegularFile(r[p].Path))
      => ServedFile(p, r[p].Path)

\* C1, amended: with the default configuration, every request path that
\* names an existing regular file and does not end in "/index.html" is
\* answered 200 with that file's own contents, the file itself being handed
\* to the content responder; a path ending in "/index.html" is answered 301.
C1_ServesExistingFile ==
  \A p \in Procs :
    (Done(p) /\ DefaultConfiguration /\ IsRegularFile(r[p].Path))
      => IF HasSuffix(r[p].Path, IndexSuffix)
           THEN Len(w[p]) = 1 /\ w[p][1].status = StatusMovedPermanently
           ELSE ServedFile(p, r[p].Path)

C1_Witness ==
  \E p \in Procs :
    /\ Done(p) /\ DefaultConfiguration
    /\ r[p].Path = ScriptPath
    /\ ServedFile(p, r[p].Path)

\* ---------------------------------------------------------------- C2
\* The filesystem reports the cleaned request path as not existing.
PathMissing(p) ==
  FSOpen(h.fs, Clean(Normalize(r[p].Path))).openErr = ErrNotExist

EndsInSlash(p) ==
  r[p].Path # RootPath /\ HasSuffix(r[p].Path, <<Slash>>)

FallbackUsable == h.fallback # << >> /\ IsRegularFile(h.fallback)

\* C2 as stated: with a fallback that is a regular file, every request for
\* a path that does not exist, and every request for a path other than "/"
\* that ends in "/", is answered 200 with the fallback's contents.
C2_AsClaimed ==
  \A p \in Procs :
    (Done(p) /\ FallbackUsable /\ (PathMissing(p) \/ EndsInSlash(p)))
      => Answered(p, StatusOK, FileData(h.fallback))

\* C2, amended: the same, except when index redirect is enabled and the
\* path ends in "/index.html": that request is answered 301.
C2_ServesFallback ==
  \A p \in Procs :
    (Done(p) /\ FallbackUsable /\ (PathMissing(p) \/ EndsInSlash(p)))
      => IF IsIndexRequest(h, Normalize(r[p].Path))
           THEN Len(w[p]) = 1 /\ w[p][1].status = StatusMovedPermanently
           ELSE /\ Answered(p, StatusOK, FileData(h.fallback))
                /\ handles[w[p][1].file].name = h.fallback

C2_Witness ==
  \E p \in Procs :
    /\ Done(p) /\ FallbackUsable
    /\ EndsInSlash(p) /\ ~PathMissing(p)
    /\ Answered(p, StatusOK, FileData(h.fallback))

\* ---------------------------------------------------------------- C3
\* "./", then "?" and the raw query when there is one, then "#" and the
\* escaped fragment when there is a fragment.
C3_Location(req) ==
  <<"./">>
    \o (IF req.RawQuery # << >> THEN <<"?">> \o req.RawQuery ELSE << >>)
    \o (IF req.Fragment # << >> THEN <<"#">> \o EscapedFragment(req) ELSE << >>)

\* C3: with index redirect enabled, a request whose "/"-prefixed path ends
\* in "/index.html" is answered 301 without a body, with Location "./"
\* followed by the query and then the fragment.
C3_IndexRedirect ==
  \A p \in Procs :
    (Done(p) /\ h.indexRedirect /\ HasSuffix(Normalize(r[p].Path), IndexSuffix))
      => w[p] = <<Response(StatusMovedPermanently, C3_Location(r[p]), << >>, NoFile)>>

C3_Witness ==
  \E p \in Procs :
    /\ Done(p) /\ h.indexRedirect
    /\ r[p].Path = <<"/", "dir", "/", "index.html">>
    /\ ~IsRegularFile(r[p].Path)
    /\ r[p].RawQuery = <<"query">>
    /\ r[p].Fragment = <<"a", " ", "b">>
    /\ w[p][1].location = <<"./", "?", "query", "#", "a", "%20", "b">>

\* ---------------------------------------------------------------- C4
\* C4: a handler built with NoIndexRedirect never answers 301, and a
\* request for "/index.html" is looked up like any other path: when
\* "/index.html" is a regular file it is served, 200 with its own contents.
C4_NoIndexRedirect ==
  ~h.indexRedirect =>
    \A p \in Procs :
      /\ \A i \in 1..Len(w[p]) : w[p][i].status # StatusMovedPermanently
      /\ (Done(p) /\ Normalize(r[p].Path) = <<"/", "index.html">>)
           => /\ \E i \in RequestOpens(p) : handles[i].name = <<"/", "index.html">>
              /\ IsRegularFile(<<"/", "index.html">>)
                   => ServedFile(p, <<"/", "index.html">>)

C4_Witness ==
  \E p \in Procs :
    /\ Done(p) /\ ~h.indexRedirect
    /\ h.fallback = ScriptPath
    /\ r[p].Path = <<"/", "index.html">>
    /\ ServedFile(p, <<"/", "index.html">>)

\* ---------------------------------------------------------------- C5
\* What the lookup of the request path of p found, when it opened a file.
Opened(p) == \E i \in RequestOpens(p) : handles[i].ok
Found(p) == FSOpen(h.fs, handles[CHOOSE i \in RequestOpens(p) : TRUE].name)

\* The lookup of p opened something that is not a regular file.
NotRegular(p) ==
  Opened(p) /\ Found(p).statErr = ErrNil /\ ~Found(p).regular

\* The lookup of p failed with that error, from Open or from Stat.
LookupFailed(p, e) ==
  /\ RequestOpens(p) # {}
  /\ \/ Found(p).openErr = e
     \/ Found(p).openErr = ErrNil /\ Found(p).statErr = e

\* C5: a request whose path opens but is not a regular file gets the
\* answer a missing file gets from the same handler, the fallback when it
\* is configured and valid and 500 otherwise, and what was opened is never
\* handed to the content responder.
C5_NotRegularIsMissing ==
  \A p \in Procs :
    /\ (Done(p) /\ (NotRegular(p) \/ LookupFailed(p, ErrNotExist)))
         => FallbackAnswer(p)
    /\ NotRegular(p) =>
         \A i \in 1..Len(w[p]) : w[p][i].file \notin RequestOpens(p)

C5_Witness ==
  \E p \in Procs :
    /\ Done(p) /\ NotRegular(p)
    /\ r[p].Path = RootPath
    /\ Answered(p, StatusOK, FileData(h.fallback))

C5_WitnessNoFallback ==
  \E p \in Procs :
    /\ Done(p) /\ NotRegular(p)
    /\ r[p].Path = ScriptPath
    /\ h.fallback = IndexPath /\ FSOpen(h.fs, IndexPath).statErr = ErrPermission
    /\ w[p] = <<HTTPError>>

\* ---------------------------------------------------------------- C6
\* C6: when Open or Stat of the request path fails with an error that is
\* neither not-exist nor permission, the answer is 500 with the generic
\* body and the fallback is never opened.
C6_IOErrorIsFatal ==
  \A p \in Procs :
    LookupFailed(p, ErrIO) =>
      /\ FallbackOpens(p) = {}
      /\ Done(p) => w[p] = <<HTTPError>>

C6_Witness ==
  \E p \in Procs :
    /\ Done(p) /\ LookupFailed(p, ErrIO) /\ Opened(p)
    /\ FallbackUsable
    /\ w[p] = <<HTTPError>>

\* ---------------------------------------------------------------- C7
\* handleError was called with an error that allows the fallback.
Eligible(p) == err[p] \in {ErrNotExist, ErrPermission}

\* C7: with an empty fallback path every failure that allows the fallback
\* is answered 500, never 404, and the handler makes no second Open.
C7_NoFallbackIs500 ==
  h.fallback = << >> =>
    \A p \in Procs :
      /\ FallbackOpens(p) = {}
      /\ Cardinality(RequestOpens(p)) <= 1
      /\ \A i \in 1..Len(w[p]) : w[p][i].status # 404
      /\ (Done(p) /\ Eligible(p)) => w[p] = <<HTTPError>>

C7_Witness ==
  \E p \in Procs :
    /\ Done(p) /\ h.fallback = << >>
    /\ LookupFailed(p, ErrPermission)
    /\ w[p] = <<HTTPError>>

\* ---------------------------------------------------------------- C8
Owned(p) == {i \in 1..Len(handles) : handles[i].owner = p}

\* C8: when ServeHTTP has returned, every file it opened has been closed
\* exactly once, and Close was never called for an Open that failed; no
\* file is ever closed twice.
C8_ClosedExactlyOnce ==
  \A p \in Procs :
    /\ \A i \in Owned(p) :
         handles[i].closes <= (IF handles[i].ok THEN 1 ELSE 0)
    /\ Done(p) =>
         \A i \in Owned(p) :
           handles[i].closes = (IF handles[i].ok THEN 1 ELSE 0)

C8_Witness ==
  \E p \in Procs :
    /\ Done(p)
    /\ \E i \in RequestOpens(p), j \in FallbackOpens(p) :
         /\ handles[i].ok /\ handles[i].closes = 1
         /\ handles[j].ok /\ handles[j].closes = 1
    /\ w[p] = <<HTTPError>>

C8_WitnessFailedOpen ==
  \E p \in Procs :
    /\ Done(p)
    /\ \E i \in RequestOpens(p), j \in FallbackOpens(p) :
         /\ ~handles[i].ok /\ handles[i].closes = 0
         /\ ~handles[j].ok /\ handles[j].closes = 0

\* ---------------------------------------------------------------- C9
\* C9: a permission error from Open or Stat of the request path gets the
\* answer a not-exist error gets, for every configuration: the fallback
\* when it is configured and valid, 500 otherwise, and never 403.
C9_PermissionIsNotExist ==
  \A p \in Procs :
    /\ (Done(p) /\ (LookupFailed(p, ErrPermission) \/ LookupFailed(p, ErrNotExist)))
         => FallbackAnswer(p)
    /\ \A i \in 1..Len(w[p]) : w[p][i].status # 403

C9_Witness ==
  \E p \in Procs :
    /\ Done(p) /\ LookupFailed(p, ErrPermission) /\ Opened(p)
    /\ Answered(p, StatusOK, FileData(h.fallback))

C9_WitnessNoFallback ==
  \E p \in Procs :
    /\ Done(p) /\ LookupFailed(p, ErrPermission) /\ ~Opened(p)
    /\ h.fallback # << >>
    /\ w[p] = <<HTTPError>>

\* ---------------------------------------------------------------- C10
\* C10: with a non-empty fallback path f, every request that allows the
\* fallback opens f, once, and no other name (so not "/index.html" unless
\* f is "/index.html"), and is answered 200 with f's contents when f is a
\* regular file.
C10_CustomFallback ==
  h.fallback # << >> =>
    \A p \in Procs :
      /\ \A i \in FallbackOpens(p) : handles[i].name = h.fallback
      /\ (Done(p) /\ Eligible(p)) =>
           /\ Cardinality(FallbackOpens(p)) = 1
           /\ IsRegularFile(h.fallback) =>
                /\ Answered(p, StatusOK, FileData(h.fallback))
                /\ w[p][1].file \in FallbackOpens(p)

C10_Witness ==
  \E p \in Procs :
    /\ Done(p) /\ Eligible(p)
    /\ h.fallback = ScriptPath
    /\ r[p].Path = RootPath
    /\ IsRegularFile(DefaultFallback)
    /\ Answered(p, StatusOK, FileData(ScriptPath))

\* ---------------------------------------------------------------- C12
\* The files of p that are open: returned by Open and not yet closed.
OpenFiles(p) == {i \in Owned(p) : handles[i].ok /\ handles[i].closes = 0}

\* C12 as stated: during a request at most one file opened by the handler
\* is open at any moment.
C12_AsClaimed ==
  \A p \in Procs : Cardinality(OpenFiles(p)) <= 1

\* C12, amended: at any moment at most one file opened for the request path
\* and at most one opened for the fallback are open; the two are open at
\* the same time only when the request path was opened and then its Stat
\* failed with a not-exist or permission error or it was not a regular
\* file, the first file staying open until ServeHTTP returns.
C12_OpenFiles ==
  \A p \in Procs :
    /\ Cardinality(OpenFiles(p) \cap RequestOpens(p)) <= 1
    /\ Cardinality(OpenFiles(p) \cap FallbackOpens(p)) <= 1
    /\ Cardinality(OpenFiles(p)) = 2 =>
         /\ Opened(p)
         /\ LookupError(Found(p)) \in {ErrNotExist, ErrPermission}
         /\ w[p] = << >> \/ w[p][1].file \notin RequestOpens(p)

C12_Witness ==
  \E p \in Procs :
    /\ Cardinality(OpenFiles(p)) = 2
    /\ pc[p] = "fallbackReturn"
    /\ r[p].Path = RootPath
    /\ Answered(p, StatusOK, FileData(h.fallback))

\* ---------------------------------------------------------------- C13
\* The terminal outcomes of a request.
RedirectDone(p) == w[p][1].status = StatusMovedPermanently /\ w[p][1].file = NoFile
ServeDone(p) == w[p][1].status = StatusOK /\ w[p][1].file \in Owned(p)
Error500(p) == w[p][1] = HTTPError

\* Nothing is written twice, and when ServeHTTP has returned, exactly one
\* response was written and it is one of the three outcomes.
OneOutcome(p) ==
  /\ Len(w[p]) <= 1
  /\ Done(p) =>
       /\ Len(w[p]) = 1
       /\ RedirectDone(p) \/ ServeDone(p) \/ Error500(p)

\* C13: every request that ServeHTTP handles reaches, when the filesystem
\* calls return, exactly one of the outcomes REDIRECT_DONE (301), SERVE and
\* ERROR_500: ServeHTTP returns, with one response written and never two.
C13_ExactlyOneOutcome ==
  /\ [](\A p \in Procs : OneOutcome(p))
  /\ \A p \in Procs : (pc[p] = "route") ~> (Done(p) /\ Len(w[p]) = 1)

C13_Witness ==
  \E p \in Procs :
    /\ Done(p) /\ ServeDone(p)
    /\ Cardinality(Owned(p)) = 2
    /\ w[p][1].file \in FallbackOpens(p)

\* ---------------------------------------------------------------- C14
Redirected(p) == \E i \in 1..Len(w[p]) : w[p][i].status = StatusMovedPermanently

\* C14: a request answered by the index redirect makes no filesystem call,
\* no Open, Stat or Close for its path or for the fallback, and never
\* enters handleError.
C14_RedirectBeforeLookup ==
  \A p \in Procs :
    Redirected(p) =>
      /\ Owned(p) = {}
      /\ f[p] = NoFile /\ ff[p] = NoFile
      /\ err[p] = ErrNil

C14_Witness ==
  \E p \in Procs :
    /\ Done(p) /\ Redirected(p)
    /\ r[p].Path = IndexPath
    /\ IsRegularFile(IndexPath)
    /\ h.fallback = ScriptPath /\ IsRegularFile(ScriptPath)
    /\ handles = << >>

\* ---------------------------------------------------------------- C15
\* p has a request whose "/"-prefixed path is not "/" and ends in "/".
SlashRequest(p) ==
  /\ pc[p] \notin {"unused", "idle"}
  /\ fpath[p] # RootPath /\ HasSuffix(fpath[p], <<Slash>>)

\* C15: for a request whose "/"-prefixed path is not "/" and ends in "/",
\* the handler never opens the request path: it opens nothing but the
\* fallback path, and the request is handled as not found, whatever exists
\* at the path.
C15_SlashIsNotFound ==
  \A p \in Procs :
    SlashRequest(p) =>
      /\ RequestOpens(p) = {}
      /\ \A i \in Owned(p) : handles[i].name = h.fallback
      /\ pc[p] # "route" => err[p] = ErrNotExist
      /\ Done(p) => FallbackAnswer(p)

C15_Witness ==
  \E p \in Procs :
    /\ Done(p) /\ SlashRequest(p)
    /\ r[p].Path = IndexPath \o <<Slash>>
    /\ IsRegularFile(IndexPath)
    /\ h.fallback = ScriptPath
    /\ Answered(p, StatusOK, FileData(ScriptPath))

\* ---------------------------------------------------------------- C16
\* The fallback that p opened cannot be served: Open or Stat fails, or it
\* is not a regular file.
FallbackFailed(p) ==
  \E i \in FallbackOpens(p) : FSOpen(h.fs, handles[i].name) # RegularFile

\* C16: when the fallback is attempted and its Open fails, or its Stat
\* fails, or it is not a regular file, the answer is 500 whatever the
\* error, and nothing else is looked up: a request opens the fallback at
\* most once and makes at most two Open calls.
C16_FallbackFailureIs500 ==
  \A p \in Procs :
    /\ Cardinality(FallbackOpens(p)) <= 1
    /\ Cardinality(Owned(p)) <= 2
    /\ (Done(p) /\ FallbackFailed(p)) => w[p] = <<HTTPError>>
    /\ FallbackFailed(p) => \A i \in 1..Len(w[p]) : w[p][i] = HTTPError

C16_Witness ==
  \E p \in Procs :
    /\ Done(p) /\ FallbackFailed(p)
    /\ h.fallback = IndexPath
    /\ FSOpen(h.fs, IndexPath) = Directory
    /\ Cardinality(Owned(p)) = 2
    /\ w[p] = <<HTTPError>>

C16_WitnessNotExist ==
  \E p \in Procs :
    /\ Done(p) /\ FallbackFailed(p)
    /\ FSOpen(h.fs, h.fallback).openErr = ErrNotExist
    /\ w[p] = <<HTTPError>>

\* ---------------------------------------------------------------- C17
\* A rooted path in its shortest form: it begins with "/", has no "." or
\* ".." element and no empty element, and ends in "/" only when it is "/".
CleanRooted(s) ==
  /\ Len(s) >= 1 /\ s[1] = Slash
  /\ \A i \in 1..Len(s) : s[i] \notin {".", ".."}
  /\ \A i \in 1..(Len(s) - 1) : ~(s[i] = Slash /\ s[i + 1] = Slash)
  /\ Len(s) > 1 => s[Len(s)] # Slash

\* C17: every name the handler gives to Open for the request path is the
\* "/"-prefixed request path, cleaned: rooted, without "." or ".."
\* elements, empty elements or a trailing "/"; no ".." reaches the
\* filesystem.
C17_OpensCleanPath ==
  \A p \in Procs :
    \A i \in RequestOpens(p) :
      /\ CleanRooted(handles[i].name)
      /\ Elements(handles[i].name) = SelectSeq(Elements(handles[i].name),
           LAMBDA e : \E k \in 1..Len(r[p].Path) : r[p].Path[k] = e)

C17_Witness ==
  \E p \in Procs :
    /\ r[p].Path = <<"/", "..", "/", "dir">>
    /\ \E i \in RequestOpens(p) : handles[i].name = <<"/", "dir">>

\* ---------------------------------------------------------------- C18
\* The "/"-prefixed path of p does not end in "/index.html", its cleaned
\* form does.
IndexOnlyWhenCleaned(p) ==
  /\ pc[p] \notin {"unused", "idle"}
  /\ ~HasSuffix(fpath[p], IndexSuffix)
  /\ HasSuffix(Clean(fpath[p]), IndexSuffix)

\* A 301 is written only with index redirect enabled and a "/"-prefixed,
\* uncleaned path that ends in "/index.html", letter for letter.
RedirectOnlyLiteral(p) ==
  Redirected(p) => h.indexRedirect /\ HasSuffix(Normalize(r[p].Path), IndexSuffix)

LooksUpCleaned(p) ==
  \E i \in RequestOpens(p) : handles[i].name = Clean(fpath[p])

\* C18 as stated: a 301 is written only for such a path, and a path that
\* ends in "/index.html" only once cleaned is not redirected and goes on to
\* the lookup of its cleaned path.
C18_AsClaimed ==
  \A p \in Procs :
    /\ RedirectOnlyLiteral(p)
    /\ (Done(p) /\ IndexOnlyWhenCleaned(p)) => ~Redirected(p) /\ LooksUpCleaned(p)

\* C18, amended: a 301 is written only for such a path; a path that ends in
\* "/index.html" only once cleaned is not redirected: it goes on to the
\* trailing-slash test and, unless it ends in "/" (then it is handled as
\* not found without any lookup), to the lookup of its cleaned path.
C18_RedirectOnUncleanedPath ==
  \A p \in Procs :
    /\ RedirectOnlyLiteral(p)
    /\ (Done(p) /\ IndexOnlyWhenCleaned(p)) =>
         /\ ~Redirected(p)
         /\ IF HasSuffix(fpath[p], <<Slash>>)
              THEN RequestOpens(p) = {} /\ err[p] = ErrNotExist
              ELSE LooksUpCleaned(p)

C18_Witness ==
  \E p \in Procs :
    /\ Done(p) /\ h.indexRedirect /\ IndexOnlyWhenCleaned(p)
    /\ r[p].Path = <<"/", "index.html", "/", ".">>
    /\ ServedFile(p, IndexPath)

C18_WitnessCase ==
  \E p \in Procs :
    /\ Done(p) /\ h.indexRedirect
    /\ r[p].Path = <<"/", "INDEX.HTML">>
    /\ ~Redirected(p)
    /\ \E i \in RequestOpens(p) : handles[i].name = <<"/", "INDEX.HTML">>

\* ---------------------------------------------------------------- C19
\* C19 as stated: whenever the fallback is opened, the name given to Open
\* begins with "/".
C19_AsClaimed ==
  \A p \in Procs :
    \A i \in FallbackOpens(p) : HasPrefix(handles[i].name, <<Slash>>)

\* C19, amended: whenever the fallback is opened, the name given to Open is
\* the configured fallback path as it is, not empty, neither prefixed nor
\* cleaned, and it is opened in the filesystem of the regular lookups; it
\* begins with "/" exactly when the configured path does.
C19_FallbackPathAsConfigured ==
  \A p \in Procs :
    \A i \in FallbackOpens(p) :
      /\ h.fallback # << >>
      /\ handles[i].name = h.fallback
      /\ handles[i].ok <=> FSOpen(h.fs, h.fallback).openErr = ErrNil
      /\ HasPrefix(handles[i].name, <<Slash>>) <=> HasPrefix(h.fallback, <<Slash>>)

C19_Witness ==
  \E p \in Procs :
    /\ Done(p)
    /\ h.fallback = <<"index.html">>
    /\ IsRegularFile(IndexPath)
    /\ \E i \in FallbackOpens(p) : handles[i].name = <<"index.html">> /\ ~handles[i].ok
    /\ w[p] = <<HTTPError>>

C19_WitnessAbsolute ==
  \E p \in Procs :
    /\ Done(p)
    /\ h.fallback = ScriptPath
    /\ \E i \in FallbackOpens(p) : handles[i].name = ScriptPath /\ handles[i].ok

\* ---------------------------------------------------------------- C20
\* C20: when a client follows the 301 given for a path that ends in
\* "/index.html" and asks for that path without the final "index.html",
\* the answer is not another 301: the follow-up ends in SERVE or ERROR_500,
\* so no request is redirected twice.
C20_NoRedirectChain ==
  \A p \in Procs :
    /\ hops[p] <= 1
    /\ hops[p] = 1 =>
         /\ HasSuffix(fpath[p], <<Slash>>)
         /\ ~Redirected(p)
         /\ Done(p) => Len(w[p]) = 1 /\ (ServeDone(p) \/ Error500(p))

C20_Witness ==
  \E p \in Procs :
    /\ Done(p) /\ hops[p] = 1
    /\ r[p].Path = <<"/", "dir", "/">>
    /\ ServeDone(p)

C20_WitnessRoot ==
  \E p \in Procs :
    /\ Done(p) /\ hops[p] = 1
    /\ r[p].Path = RootPath
    /\ Error500(p)

\* ---------------------------------------------------------------- C11
\* The response to a request handled alone, from the configuration, the
\* filesystem and the request: status, Location, body and the name of the
\* file served.
Alone(hh, req) ==
  LET path == Normalize(req.Path)
      found == FSOpen(hh.fs, Clean(path))
      e == IF IsSlashRequest(path) THEN ErrNotExist
           ELSE IF found.openErr # ErrNil THEN found.openErr
           ELSE LookupError(found)
      failed == [status |-> StatusInternalServerError, location |-> << >>,
                 body |-> HTTPError.body, name |-> << >>]
  IN  IF IsIndexRequest(hh, path)
        THEN [status |-> StatusMovedPermanently,
              location |-> RedirectLocation(<<"./">>, req.RawQuery, req),
              body |-> << >>, name |-> << >>]
      ELSE IF e = ErrNil
        THEN [status |-> StatusOK, location |-> << >>,
              body |-> FileData(Clean(path)), name |-> Clean(path)]
      ELSE IF IsFatal(hh, e) \/ FSOpen(hh.fs, hh.fallback) # RegularFile
        THEN failed
      ELSE [status |-> StatusOK, location |-> << >>,
            body |-> FileData(hh.fallback), name |-> hh.fallback]

\* p wrote the response its request gets when handled alone, from a file
\* of its own.
SameAsAlone(p) ==
  LET a == Alone(h, r[p])
  IN  /\ Len(w[p]) = 1
      /\ w[p][1].status = a.status
      /\ w[p][1].location = a.location
      /\ w[p][1].body = a.body
      /\ IF a.name = << >> THEN w[p][1].file = NoFile
         ELSE /\ w[p][1].file \in Owned(p)
              /\ handles[w[p][1].file].name = a.name

\* The files p holds and serves are files p opened.
UsesOwnFiles(p) ==
  /\ f[p] # NoFile => f[p] \in Owned(p)
  /\ ff[p] # NoFile => ff[p] \in Owned(p)
  /\ \A i \in 1..Len(w[p]) : w[p][i].file # NoFile => w[p][i].file \in Owned(p)

\* A step changes the record of an Open call only when it is a step of the
\* goroutine that made the call.
ClosesOwnFiles ==
  \A i \in 1..Len(handles) :
    handles'[i] # handles[i] => pc'[handles[i].owner] # pc[handles[i].owner]

\* C11: with a fixed handler and filesystem, in every interleaving of
\* concurrent requests each request gets the response it gets when handled
\* alone, so equal requests get equal responses; no step changes the
\* handler's fs, fallback or indexRedirect; and no goroutine uses or closes
\* a file another one opened.
C11_NoInterference ==
  /\ [](\A p \in Procs : UsesOwnFiles(p) /\ (Done(p) => SameAsAlone(p)))
  /\ [][h' = h /\ ClosesOwnFiles]_vars

C11_Witness ==
  /\ \A p \in Procs : Done(p)
  /\ r[1].Path = ScriptPath /\ r[2].Path = RootPath
  /\ h.fallback = IndexPath
  /\ ServedFile(1, ScriptPath)
  /\ Answered(2, StatusOK, FileData(IndexPath))
  /\ handles[1].owner = 2 /\ handles[2].owner = 1 /\ handles[3].owner = 2
====
